---- MODULE Spec2Model ----
(***************************************************************************)
(* A model of the barcode counting pipeline of illumina.py:                *)
(* count_and_sort_barcodes scatters one counting task per tile file over a *)
(* process pool, merges each worker's on-disk count index into one         *)
(* reduction index as the futures complete, and writes the ranked table.   *)
(*                                                                         *)
(* A second specification, SpecGuess, models the guess_barcodes command:    *)
(* its parser, main_guess_barcodes and the helper that computes the guesses.*)
(*                                                                         *)
(* Barcode strings are tuples of one-character strings, so that slicing,   *)
(* the no-call test and the Hamming distance are computed, not assumed.    *)
(* A Python value that may be None is the empty tuple for None and the     *)
(* one-element tuple <<n>> for the integer n.                              *)
(***************************************************************************)
EXTENDS Integers, Sequences, FiniteSets, TLC

VARIABLES
    tile_barcode_files, \* the tile files of barcodes_dir, each a sequence of barcode lines
    includeNoise,       \* argument includeNoise, from the call on
    threads,            \* argument threads: NoneVal or <<n>>, from the call on
    truncateToLength,   \* argument truncateToLength: NoneVal or <<n>>, once the writer read it
    omitHeader,         \* argument omitHeader, once the writer read it
    barcode1_len,       \* argument barcode1_len, once the writer read it
    pc,                 \* the caller's position in count_and_sort_barcodes
    futures,            \* state of each submitted future
    tmp_db,             \* content of each worker-local on-disk count index
    tmp_exists,         \* the worker-local index files that exist on disk
    yielded,            \* the futures as_completed has delivered so far
    reduce_db,          \* the reduction index
    reduce_open,        \* TRUE while the CountDB context of reduce_db is entered
    outSummary,         \* the output file: [opened, header, rows]
    in_barcodes,        \* guess_barcodes: the ranked barcode table file, a sequence of rows
    in_picard_metrics,  \* guess_barcodes: the demultiplexing metrics: [samples, unassigned]
    sample_names,       \* argument sample_names: NoneVal or a sequence of names
    readcount_threshold,        \* argument readcount_threshold: NoneVal or <<n>>
    expected_assigned_fraction, \* argument expected_assigned_fraction: <<numerator, denominator>>
    rows_limit,         \* argument rows_limit
    gpc,                \* the position of the guess_barcodes command
    barcodes_seen,      \* the rows of in_barcodes the helper has loaded
    samples_to_examine, \* the selected samples not yet guessed for
    guessed_barcodes,   \* the guesses computed so far
    error,              \* what the command has raised, "none" if nothing
    out_summary_tsv,    \* the guessed-barcode report: [opened, header, rows]
    dpc,                \* the position of main_illumina_demux
    multiplexed_samples,\* illumina_demux: 'B' is in the read structure
    commonBarcodes,     \* illumina_demux: args.commonBarcodes is given
    barcodes_tmpdir,    \* illumina_demux: the directory of extracted barcodes on disk
    executor,           \* illumina_demux: the background ProcessPoolExecutor
    exit_status,        \* illumina_demux: NoneVal, or <<n>> once main returned n
    infile,             \* SampleSheet: the lines of the CSV file, each a sequence of cells
    line_no,            \* SampleSheet: the number of lines the loop has taken
    miseq_skip,         \* SampleSheet: TRUE while the lines of a MiSeq section are skipped
    header,             \* SampleSheet: NoneVal, or the mapped column names
    row_num,            \* SampleSheet: the number of data rows counted
    sheet_rows,         \* SampleSheet: self.rows, each [fields, row_num]
    sheet_error,        \* SampleSheet: what the loader raised, "none" if nothing
    parsed_as,          \* SampleSheet: what the loop did with each line (history)
    uri,                \* IlluminaDirectory: what self.uri names
    tree,               \* IlluminaDirectory: the layout below the root: <<levels, found>>
    path,               \* IlluminaDirectory: self.path, NoneVal or <<root, depth>>
    tempDir,            \* IlluminaDirectory: self.tempDir, NoneVal or <<root>>
    disk,               \* IlluminaDirectory: the root directories that exist on disk
    removed,            \* IlluminaDirectory: the roots shutil.rmtree was called on (history)
    call_log            \* IlluminaDirectory: the calls made so far, <<method, outcome>> each

\* the state of count_and_sort_barcodes
counter == << tile_barcode_files, includeNoise, truncateToLength, omitHeader,
              barcode1_len, threads, pc, futures, tmp_db, tmp_exists, yielded,
              reduce_db, reduce_open, outSummary >>

\* the state of the guess_barcodes command
guesser == << in_barcodes, in_picard_metrics, sample_names, readcount_threshold,
              expected_assigned_fraction, rows_limit, gpc, barcodes_seen,
              samples_to_examine, guessed_barcodes, error, out_summary_tsv >>

\* the state of main_illumina_demux
demuxer == << dpc, multiplexed_samples, commonBarcodes, barcodes_tmpdir, executor,
              exit_status >>

\* the state of SampleSheet._detect_and_load_sheet
sheet == << infile, line_no, miseq_skip, header, row_num, sheet_rows, sheet_error,
            parsed_as >>

\* the state of an IlluminaDirectory and of the disk around it
directory == << uri, tree, path, tempDir, disk, removed, call_log >>

\* what neither count_and_sort_barcodes nor guess_barcodes touches
others == << demuxer, sheet, directory >>

\* what main_illumina_demux does not touch, the state of the counting task apart
beside_demuxer == << guesser, sheet, directory >>

\* what the loader of a SampleSheet does not touch
beside_sheet == << counter, guesser, demuxer, directory >>

\* what an IlluminaDirectory does not touch
beside_directory == << counter, guesser, demuxer, sheet >>

vars == << counter, guesser, others >>

\* the directory and the arguments of the call
inputs == << tile_barcode_files, includeNoise, truncateToLength, omitHeader,
             barcode1_len, threads >>

-----------------------------------------------------------------------------
(* Bounds of the model *)

MaxTiles == 2        \* at most this many tile files in barcodes_dir
MaxReads == 3        \* at most this many lines over all tile files
MaxTruncate == 1     \* truncateToLength ranges over None and 0..MaxTruncate
AvailableCpus == 2   \* what available_cpu_count() returns on the modelled host

-----------------------------------------------------------------------------
(* Values *)

NoneVal == << >>
IsNone(x) == x = << >>
IntVal(x) == x[1]

\* Python truthiness of an Optional[int]: None and 0 are falsy
Truthy(x) == ~IsNone(x) /\ IntVal(x) # 0

Min(a, b) == IF a <= b THEN a ELSE b

\* The barcode strings that may occur as a line of a tile file.
Barcodes == { <<"A", "C">>, <<"A", "G">>, <<"A", ".">> }

noise_chr == "."

HasNoise(barcode) == \E k \in 1..Len(barcode) : barcode[k] = noise_chr

\* Python s[a:b] for 0 <= a, 0 <= b (both clamp to len(s))
Slice(s, a, b) == SubSeq(s, Min(a, Len(s)) + 1, Min(b, Len(s)))

MaxBarcodeLen == CHOOSE n \in 0..8 : /\ \A b \in Barcodes : Len(b) <= n
                                    /\ \E b \in Barcodes : Len(b) = n

RECURSIVE SeqsUpTo(_, _)
SeqsUpTo(S, n) ==
    IF n = 0 THEN { << >> }
    ELSE LET shorter == SeqsUpTo(S, n - 1)
         IN  shorter \cup { Append(s, x) : s \in { t \in shorter : Len(t) = n - 1 }, x \in S }

\* All directories of exactly n tile files holding at most r lines in total
RECURSIVE TileDirs(_, _)
TileDirs(n, r) ==
    IF n = 0 THEN { << >> }
    ELSE UNION { { Append(d, f) : d \in TileDirs(n - 1, r - Len(f)) } : f \in SeqsUpTo(Barcodes, r) }

TileDirChoices == UNION { TileDirs(n, MaxReads) : n \in 0..MaxTiles }

TruncateChoices == { NoneVal } \cup { <<n>> : n \in 0..MaxTruncate }
Barcode1LenChoices == 0..(MaxBarcodeLen + 1)
ThreadChoices == { NoneVal, <<1>> }

Tiles == 1..Len(tile_barcode_files)

EmptyCounts == [b \in {} |-> 0]

-----------------------------------------------------------------------------
(* util.file.CountDB and the counting worker *)

CountOf(db, key) == IF key \in DOMAIN db THEN db[key] ELSE 0

\* CountDB.add_counts for one key: add to the stored count, insert if new
add_count(db, key, n) ==
    [k \in DOMAIN db \cup {key} |-> IF k = key THEN CountOf(db, key) + n ELSE db[k]]

\* CountDB.add_counts_from_other_db: for every key of other, add its count
add_counts_from_other_db(db, other) ==
    [k \in DOMAIN db \cup DOMAIN other |-> CountOf(db, k) + CountOf(other, k)]

\* util.file.count_occurrences_in_tsv_sqlite_backed: one scan of one tile file
RECURSIVE count_occurrences(_, _, _)
count_occurrences(lines, include_noise, db) ==
    IF lines = << >> THEN db
    ELSE LET barcode == Head(lines)
         IN  count_occurrences(Tail(lines), include_noise,
                 IF HasNoise(barcode) /\ ~include_noise THEN db
                 ELSE add_count(db, barcode, 1))

count_occurrences_in_tsv_sqlite_backed(lines, include_noise) ==
    count_occurrences(lines, include_noise, EmptyCounts)

\* All enumerations of the set S as a sequence without repetition
Perms(S) ==
    { s \in [1..Cardinality(S) -> S] : \A i, j \in 1..Cardinality(S) : i # j => s[i] # s[j] }

\* CountDB.get_counts_descending: the (barcode, count) rows by count descending;
\* rows of equal count come in any order
get_counts_descending(db) ==
    { [i \in 1..Len(s) |-> << s[i], db[s[i]] >>] :
        s \in { p \in Perms(DOMAIN db) : \A i \in 1..(Len(p) - 1) : db[p[i]] >= db[p[i + 1]] } }

\* util.misc.sanitize_thread_count
sanitize_thread_count(t) ==
    IF IsNone(t) THEN AvailableCpus
    ELSE IF IntVal(t) < 1 THEN 1
    ELSE Min(IntVal(t), AvailableCpus)

-----------------------------------------------------------------------------
(* util.illumina_indices.IlluminaIndexReference *)

\* The known index sequences and their names
IndexTable == << [seq |-> <<"A">>, name |-> "N1"],
                 [seq |-> <<"C">>, name |-> "S1"],
                 [seq |-> <<"A", "C">>, name |-> "D701"],
                 [seq |-> <<"A", "G">>, name |-> "D702"],
                 [seq |-> <<"T", "G">>, name |-> "D703"] >>

Hamming(s, t) == Cardinality({ k \in 1..Len(s) : s[k] # t[k] })

RECURSIVE NamesWhere(_, _, _)
NamesWhere(table, seq, d) ==
    IF table = << >> THEN << >>
    ELSE LET e == Head(table)
             rest == NamesWhere(Tail(table), seq, d)
         IN  IF Len(e.seq) = Len(seq) /\ Hamming(e.seq, seq) <= d
             THEN << e.name >> \o rest ELSE rest

\* guess_index: the names of the exact match if there is one, otherwise the
\* names of the indexes within the given Hamming distance
guess_index(seq, distance) ==
    IF NamesWhere(IndexTable, seq, 0) # << >> THEN NamesWhere(IndexTable, seq, 0)
    ELSE NamesWhere(IndexTable, seq, distance)

-----------------------------------------------------------------------------
(* count_and_sort_barcodes *)

\* a caller that hands threads to the pool as it got it
workers_unsanitized == IF IsNone(threads) THEN AvailableCpus ELSE IntVal(threads)

\* line 530: workers = util.misc.sanitize_thread_count(threads)
workers == sanitize_thread_count(threads)

\* a caller that always asks its workers to count no-call barcodes
worker_include_noise_always == TRUE

\* the include_noise keyword passed to each worker (line 532)
worker_include_noise == includeNoise

\* ",".join(names): the names with a "," token between neighbours
RECURSIVE JoinComma(_)
JoinComma(names) ==
    IF Len(names) <= 1 THEN names
    ELSE << Head(names), "," >> \o JoinComma(Tail(names))

\* a writer that joins the names without the fallback to "Unknown"
likely_index_names_no_fallback(segment) == JoinComma(guess_index(segment, 1))

\* ",".join([x for x in guess_index(segment, distance=1)] or ["Unknown"])
likely_index_names(segment) ==
    LET names == guess_index(segment, 1)
    IN  JoinComma(IF names # << >> THEN names ELSE << "Unknown" >>)

\* a writer that takes the second index to be as wide as the first
format_row_same_widths(row, b1_len) ==
    LET barcode == row[1]
        count == row[2]
    IN  [ Barcode1 |-> Slice(barcode, 0, b1_len),
          Likely_Index_Names1 |-> likely_index_names(Slice(barcode, 0, b1_len)),
          Barcode2 |-> Slice(barcode, b1_len, b1_len + b1_len),
          Likely_Index_Names2 |-> likely_index_names(Slice(barcode, b1_len, b1_len + b1_len)),
          Count |-> count ]

\* the tuple handed to writer.writerow for one (barcode, count) row
format_row(row, b1_len) ==
    LET barcode == row[1]
        count == row[2]
    IN  [ Barcode1 |-> Slice(barcode, 0, b1_len),
          Likely_Index_Names1 |-> likely_index_names(Slice(barcode, 0, b1_len)),
          Barcode2 |-> Slice(barcode, b1_len, Len(barcode)),
          Likely_Index_Names2 |-> likely_index_names(Slice(barcode, b1_len, Len(barcode))),
          Count |-> count ]

\* an exit test that takes every truncateToLength but None as a limit
truncate_break_unless_none(num_processed, truncate) ==
    ~IsNone(truncate) /\ num_processed > IntVal(truncate)

\* the loop's exit test before row number num_processed (0-based) is written
truncate_break(num_processed, truncate) ==
    Truthy(truncate) /\ num_processed > IntVal(truncate)

\* for num_processed, row in enumerate(...): the rows written before the loop ends
RECURSIVE write_rows(_, _, _, _, _)
write_rows(rows, num_processed, written, truncate, b1_len) ==
    IF num_processed >= Len(rows) THEN written
    ELSE IF truncate_break(num_processed, truncate) THEN written
    ELSE write_rows(rows, num_processed + 1,
                    Append(written, format_row(rows[num_processed + 1], b1_len)),
                    truncate, b1_len)

HeaderRow == << "Barcode1", "Likely_Index_Names1", "Barcode2", "Likely_Index_Names2", "Count" >>

\* a writer that takes omitHeader the wrong way round
write_header_inverted(omit) == IF omit THEN << HeaderRow >> ELSE << >>

\* the header rows written before the data rows
write_header(omit) == IF ~omit THEN << HeaderRow >> ELSE << >>

\* a writer that iterates the reduction index in storage order
counts_iteration_unsorted ==
    { [i \in 1..Len(s) |-> << s[i], reduce_db[s[i]] >>] : s \in Perms(DOMAIN reduce_db) }

\* the iteration the writer loops over (line 553)
counts_iteration == get_counts_descending(reduce_db)

\* a gather loop that merges each worker index twice
reduce_step_twice(db, other) ==
    add_counts_from_other_db(add_counts_from_other_db(db, other), other)

\* a gather loop that keeps only the index of the worker delivered last
reduce_step_overwrite(db, other) == other

\* the step of the gather loop on the reduction index (line 537)
reduce_step(db, other) == add_counts_from_other_db(db, other)

\* util.file.mkstempfname: the k-th call of a run returns a fresh path, named k here
mkstempfname(k) == k

\* line 527: the temp file paired with tile file i, one mkstempfname call per tile file
tmp_file(i) == mkstempfname(i)

\* a gather loop that unlinks the worker index before it merges it: the merge
\* then opens a new, empty index at that path
index_merged_after_unlink(i) == EmptyCounts

\* line 537: the worker index handed to add_counts_from_other_db, read before
\* line 538 unlinks it
index_merged(i) == tmp_db[tmp_file(i)]

NotOpened == [opened |-> FALSE, header |-> << >>, rows |-> << >>]

Running == { i \in Tiles : futures[i] = "running" }

\* Before the call only the directory of tile files exists. The arguments of a
\* call are drawn by the step that reads them first (includeNoise and threads
\* by Submit; truncateToLength, omitHeader and barcode1_len, which only the writer
\* reads, by WriteOutput) and keep their value from then on; until then the
\* variables hold the defaults of the signature, line 519.
CounterIdle ==
    /\ includeNoise = FALSE
    /\ threads = NoneVal
    /\ truncateToLength = NoneVal
    /\ omitHeader = FALSE
    /\ barcode1_len = 8
    /\ pc = "start"
    /\ futures = [i \in Tiles |-> "none"]
    /\ tmp_db = [i \in Tiles |-> EmptyCounts]
    /\ tmp_exists = {}
    /\ yielded = {}
    /\ reduce_db = EmptyCounts
    /\ reduce_open = FALSE
    /\ outSummary = NotOpened

NoMetrics == [samples |-> << >>, unassigned |-> 0]

NoReport == [opened |-> FALSE, header |-> << >>, rows |-> << >>]

\* the default of --expected_assigned_fraction, 0.7, as a ratio
default_expected_assigned_fraction == << 7, 10 >>

\* the default of --rows_limit
default_rows_limit == 1000

\* the guess_barcodes command before it is called: no file is read, the
\* arguments hold the defaults of the parser
GuesserStart ==
    /\ in_barcodes = << >>
    /\ sample_names = NoneVal
    /\ readcount_threshold = NoneVal
    /\ expected_assigned_fraction = default_expected_assigned_fraction
    /\ rows_limit = default_rows_limit
    /\ gpc = "start"
    /\ barcodes_seen = << >>
    /\ samples_to_examine = << >>
    /\ guessed_barcodes = << >>
    /\ error = "none"
    /\ out_summary_tsv = NoReport

GuesserIdle ==
    /\ in_picard_metrics = NoMetrics
    /\ GuesserStart

\* main_illumina_demux before it is called
DemuxStart ==
    /\ dpc = "start"
    /\ barcodes_tmpdir = "none"
    /\ executor = "none"
    /\ exit_status = NoneVal

DemuxIdle ==
    /\ multiplexed_samples = FALSE
    /\ commonBarcodes = FALSE
    /\ DemuxStart

\* lines 1143-1146: the loader before its first line
SheetStart ==
    /\ line_no = 0
    /\ miseq_skip = FALSE
    /\ header = NoneVal
    /\ row_num = 0
    /\ sheet_rows = << >>
    /\ sheet_error = "none"
    /\ parsed_as = [k \in DOMAIN infile |-> "unread"]

SheetIdle ==
    /\ infile = << >>
    /\ SheetStart

\* lines 673-675: a new IlluminaDirectory; of the disk only the user's
\* directory exists, when uri names one
DirectoryStart ==
    /\ path = NoneVal
    /\ tempDir = NoneVal
    /\ disk = IF uri = "directory" THEN { "uri" } ELSE {}
    /\ removed = << >>
    /\ call_log = << >>

DirectoryIdle ==
    /\ uri = "remote"
    /\ tree = << 0, FALSE >>
    /\ DirectoryStart

OthersIdle == DemuxIdle /\ SheetIdle /\ DirectoryIdle

Init ==
    /\ tile_barcode_files \in TileDirChoices
    /\ CounterIdle
    /\ GuesserIdle
    /\ OthersIdle

\* lines 521-532: list the directory, enter the CountDB context, create one
\* (empty) temp file per tile file with mkstempfname, submit one task per tile
\* file; includeNoise and threads are drawn from the sets given
SubmitWith(noise_choices, thread_choices) ==
    /\ pc = "start"
    /\ \E n \in noise_choices, t \in thread_choices :
         /\ includeNoise' = n
         /\ threads' = t
    /\ pc' = "gather"
    /\ reduce_open' = TRUE
    /\ reduce_db' = EmptyCounts
    /\ tmp_exists' = { tmp_file(i) : i \in Tiles }
    /\ tmp_db' = [i \in Tiles |-> EmptyCounts]
    /\ futures' = [i \in Tiles |-> "pending"]
    /\ yielded' = {}
    /\ UNCHANGED << tile_barcode_files, truncateToLength, omitHeader, barcode1_len,
                    outSummary >>
    /\ UNCHANGED << guesser, others >>

Submit == SubmitWith(BOOLEAN, ThreadChoices)

\* the pool takes the next work item, in submission order, when a process is free
WorkerStart(i) ==
    /\ pc \in { "gather", "unwind" }
    /\ futures[i] = "pending"
    /\ \A j \in Tiles : j < i => futures[j] # "pending"
    /\ Cardinality(Running) < workers
    /\ futures' = [futures EXCEPT ![i] = "running"]
    /\ UNCHANGED << inputs, pc, tmp_db, tmp_exists, yielded, reduce_db, reduce_open,
                    outSummary >>
    /\ UNCHANGED << guesser, others >>

\* the worker returns (tmp_db, barcode_file): its index holds the counts of its tile file
WorkerFinish(i) ==
    /\ pc \in { "gather", "unwind" }
    /\ futures[i] = "running"
    /\ futures' = [futures EXCEPT ![i] = "finished"]
    /\ tmp_db' = [tmp_db EXCEPT ![tmp_file(i)] =
                    count_occurrences_in_tsv_sqlite_backed(tile_barcode_files[i], worker_include_noise)]
    /\ UNCHANGED << inputs, pc, tmp_exists, yielded, reduce_db, reduce_open,
                    outSummary >>
    /\ UNCHANGED << guesser, others >>

\* the worker raises: its future holds the exception. What the worker had written
\* to its index file by then is not modelled: the caller reads the index of a
\* future only after future.result() has returned.
WorkerFail(i) ==
    /\ pc \in { "gather", "unwind" }
    /\ futures[i] = "running"
    /\ futures' = [futures EXCEPT ![i] = "failed"]
    /\ UNCHANGED << inputs, pc, tmp_db, tmp_exists, yielded, reduce_db, reduce_open,
                    outSummary >>
    /\ UNCHANGED << guesser, others >>

\* a gather loop that takes the results in submission order
MergeInSubmissionOrder(i) ==
    /\ pc = "gather"
    /\ futures[i] = "finished"
    /\ i \notin yielded
    /\ \A j \in Tiles : j < i => j \in yielded
    /\ yielded' = yielded \cup {i}
    /\ reduce_db' = reduce_step(reduce_db, index_merged(i))
    /\ tmp_exists' = tmp_exists \ { tmp_file(i) }
    /\ UNCHANGED << inputs, pc, futures, tmp_db, reduce_open, outSummary >>
    /\ UNCHANGED << guesser, others >>

\* a gather loop that walks the submitted futures and merges each index
\* without waiting for its worker
MergeWithoutWaiting(i) ==
    /\ pc = "gather"
    /\ futures[i] \in { "running", "finished" }
    /\ i \notin yielded
    /\ yielded' = yielded \cup {i}
    /\ reduce_db' = reduce_step(reduce_db, index_merged(i))
    /\ tmp_exists' = tmp_exists \ { tmp_file(i) }
    /\ UNCHANGED << inputs, pc, futures, tmp_db, reduce_open, outSummary >>
    /\ UNCHANGED << guesser, others >>

\* lines 533-538: as_completed delivers a finished future; its index is merged
\* into the reduction index and then unlinked
MergeCompleted(i) ==
    /\ pc = "gather"
    /\ futures[i] = "finished"
    /\ i \notin yielded
    /\ yielded' = yielded \cup {i}
    /\ reduce_db' = reduce_step(reduce_db, index_merged(i))
    /\ tmp_exists' = tmp_exists \ { tmp_file(i) }
    /\ UNCHANGED << inputs, pc, futures, tmp_db, reduce_open, outSummary >>
    /\ UNCHANGED << guesser, others >>

\* a gather loop that catches the worker's exception and goes on
ResultSwallowed(i) ==
    /\ pc = "gather"
    /\ futures[i] = "failed"
    /\ i \notin yielded
    /\ yielded' = yielded \cup {i}
    /\ UNCHANGED << inputs, pc, futures, tmp_db, tmp_exists, reduce_db, reduce_open,
                    outSummary >>
    /\ UNCHANGED << guesser, others >>

\* line 534: as_completed delivers a failed future and future.result() raises
ResultRaises(i) ==
    /\ pc = "gather"
    /\ futures[i] = "failed"
    /\ i \notin yielded
    /\ yielded' = yielded \cup {i}
    /\ pc' = "unwind"
    /\ UNCHANGED << inputs, futures, tmp_db, tmp_exists, reduce_db, reduce_open,
                    outSummary >>
    /\ UNCHANGED << guesser, others >>

\* a caller that holds the reduction index without a with block: the exception
\* leaves the index open
UnwindLeavesOpen ==
    /\ pc = "unwind"
    /\ \A i \in Tiles : futures[i] \in { "finished", "failed" }
    /\ pc' = "raised"
    /\ UNCHANGED << inputs, futures, tmp_db, tmp_exists, yielded, reduce_db,
                    reduce_open, outSummary >>
    /\ UNCHANGED << guesser, others >>

\* the exception leaves the two with blocks: the executor's exit waits for every
\* submitted task, the CountDB context is closed, the caller sees the exception
Unwind ==
    /\ pc = "unwind"
    /\ \A i \in Tiles : futures[i] \in { "finished", "failed" }
    /\ pc' = "raised"
    /\ reduce_open' = FALSE
    /\ UNCHANGED << inputs, futures, tmp_db, tmp_exists, yielded, reduce_db,
                    outSummary >>
    /\ UNCHANGED << guesser, others >>

\* a writer inside the gather loop: it writes the table after the first merge
WriteOutputInLoop ==
    /\ pc = "gather"
    /\ yielded # {} \/ Tiles = {}
    /\ \E t \in TruncateChoices, h \in BOOLEAN, b \in Barcode1LenChoices :
         /\ truncateToLength' = t
         /\ omitHeader' = h
         /\ barcode1_len' = b
         /\ \E rows \in counts_iteration :
              outSummary' = [opened |-> TRUE, header |-> write_header(h),
                             rows |-> write_rows(rows, 0, << >>, t, b)]
    /\ pc' = "done"
    /\ reduce_open' = FALSE
    /\ UNCHANGED << tile_barcode_files, includeNoise, threads, futures, tmp_db,
                    tmp_exists, yielded, reduce_db >>
    /\ UNCHANGED << guesser, others >>

\* lines 540-567: every future was delivered; the output file is opened and
\* the header and the data rows are written
WriteOutput ==
    /\ pc = "gather"
    /\ yielded = Tiles
    /\ \E t \in TruncateChoices, h \in BOOLEAN, b \in Barcode1LenChoices :
         /\ truncateToLength' = t
         /\ omitHeader' = h
         /\ barcode1_len' = b
         /\ \E rows \in counts_iteration :
              outSummary' = [opened |-> TRUE, header |-> write_header(h),
                             rows |-> write_rows(rows, 0, << >>, t, b)]
    /\ pc' = "done"
    /\ reduce_open' = FALSE
    /\ UNCHANGED << tile_barcode_files, includeNoise, threads, futures, tmp_db,
                    tmp_exists, yielded, reduce_db >>
    /\ UNCHANGED << guesser, others >>

Next ==
    \/ Submit
    \/ \E i \in Tiles : WorkerStart(i)
    \/ \E i \in Tiles : WorkerFinish(i)
    \/ \E i \in Tiles : WorkerFail(i)
    \/ \E i \in Tiles : MergeCompleted(i)
    \/ \E i \in Tiles : ResultRaises(i)
    \/ Unwind
    \/ WriteOutput

Spec == Init /\ [][Next]_vars

-----------------------------------------------------------------------------
(* What the claims are stated with *)

\* the positions (tile, line) of all lines of the directory
AllLines == UNION { { << i, k >> : k \in 1..Len(tile_barcode_files[i]) } : i \in Tiles }

LineAt(pos) == tile_barcode_files[pos[1]][pos[2]]

\* a line is counted unless it holds a no-call character and noise is excluded
Counted(barcode) == includeNoise \/ ~HasNoise(barcode)

LinesWith(barcode) == Cardinality({ pos \in AllLines : LineAt(pos) = barcode })

CountedLinesWith(barcode) == IF Counted(barcode) THEN LinesWith(barcode) ELSE 0

TotalCountedLines == Cardinality({ pos \in AllLines : Counted(LineAt(pos)) })

RECURSIVE SumOver(_, _)
SumOver(db, keys) ==
    IF keys = {} THEN 0
    ELSE LET k == CHOOSE x \in keys : TRUE
         IN  db[k] + SumOver(db, keys \ {k})

SumCounts(db) == SumOver(db, DOMAIN db)

\* every worker has completed and the gather loop has merged every index
AllMerged == pc \in { "gather", "done" } /\ yielded = Tiles

\* the barcode string a data row was written for
RowBarcode(r) == r.Barcode1 \o r.Barcode2

RowsOf(file) == { file.rows[k] : k \in 1..Len(file.rows) }

\* the index a worker hands back for tile file i
WorkerResult(i) ==
    count_occurrences_in_tsv_sqlite_backed(tile_barcode_files[i], worker_include_noise)

\* the reduction index after the gather loop has taken the futures in the order given
RECURSIVE MergeInOrder(_, _)
MergeInOrder(order, db) ==
    IF order = << >> THEN db
    ELSE MergeInOrder(Tail(order), reduce_step(db, WorkerResult(Head(order))))

-----------------------------------------------------------------------------
(* C1: once every worker's index is merged, the reduction index holds for    *)
(* every barcode exactly the number of counted lines with that barcode over  *)
(* all tile files (all lines with includeNoise, otherwise the lines without  *)
(* a no-call character), and the counts sum to the number of counted lines.  *)
C1_CountConservation ==
    AllMerged =>
        /\ DOMAIN reduce_db \subseteq Barcodes
        /\ \A b \in Barcodes : CountOf(reduce_db, b) = CountedLinesWith(b)
        /\ SumCounts(reduce_db) = TotalCountedLines

\* a finished run in which two tile files hold the same barcode and a noise line is skipped
C1_Witness ==
    /\ pc = "done"
    /\ Len(tile_barcode_files) = 2
    /\ ~includeNoise
    /\ \E pos \in AllLines : HasNoise(LineAt(pos))
    /\ \E b \in Barcodes : /\ b \in DOMAIN WorkerResult(1)
                           /\ b \in DOMAIN WorkerResult(2)
                           /\ reduce_db[b] = 2

(* C2: whatever order as_completed delivers the futures in, the reduction    *)
(* index ends with the same count for every key: the index reached by the    *)
(* order this run took is the index every other order of the same futures    *)
(* gives.                                                                    *)
C2_MergeCommutativity ==
    AllMerged =>
        \A order \in Perms(Tiles) : MergeInOrder(order, EmptyCounts) = reduce_db

\* a finished run that merged two different worker indexes sharing a key
C2_Witness ==
    /\ pc = "done"
    /\ Len(tile_barcode_files) = 2
    /\ WorkerResult(1) # WorkerResult(2)
    /\ DOMAIN WorkerResult(1) \cap DOMAIN WorkerResult(2) # {}

(* C3: with includeNoise false a barcode holding the no-call character is    *)
(* never in a worker index nor in the reduction index and never a data row;  *)
(* with includeNoise true it is counted like any other barcode and is a data *)
(* row unless truncation ended the loop before rows of its count.            *)
C3_NoiseFiltering ==
    \A b \in { x \in Barcodes : HasNoise(x) } :
        /\ ~includeNoise =>
              /\ b \notin DOMAIN reduce_db
              /\ \A i \in Tiles : b \notin DOMAIN tmp_db[i]
              /\ \A r \in RowsOf(outSummary) : RowBarcode(r) # b
        /\ (includeNoise /\ AllMerged) => CountOf(reduce_db, b) = LinesWith(b)
        /\ (includeNoise /\ pc = "done" /\ LinesWith(b) > 0) =>
              \/ \E r \in RowsOf(outSummary) : RowBarcode(r) = b /\ r.Count = LinesWith(b)
              \/ /\ Truthy(truncateToLength)
                 /\ Len(outSummary.rows) > IntVal(truncateToLength)
                 /\ \A r \in RowsOf(outSummary) : r.Count >= LinesWith(b)

\* a finished run without noise whose directory holds a no-call line besides a counted one
C3_Witness ==
    /\ pc = "done"
    /\ ~includeNoise
    /\ \E pos \in AllLines : HasNoise(LineAt(pos))
    /\ outSummary.rows # << >>

(* C4: with truncateToLength a positive integer N at most N data rows are    *)
(* written, and they are the N highest-count rows of the untruncated output. *)
C4_Truncation ==
    (pc = "done" /\ ~IsNone(truncateToLength) /\ IntVal(truncateToLength) > 0) =>
        /\ Len(outSummary.rows) <= IntVal(truncateToLength)
        /\ \E rows \in counts_iteration :
              LET full == write_rows(rows, 0, << >>, NoneVal, barcode1_len)
              IN  outSummary.rows =
                      SubSeq(full, 1, Min(IntVal(truncateToLength), Len(full)))

(* C5: the data rows are in non-increasing order of Count, and every barcode *)
(* string of the reduction index is the barcode of at most one data row.     *)
C5_SortedUnique ==
    pc = "done" =>
        /\ \A k \in 1..(Len(outSummary.rows) - 1) :
              outSummary.rows[k].Count >= outSummary.rows[k + 1].Count
        /\ \A b \in DOMAIN reduce_db :
              Cardinality({ k \in 1..Len(outSummary.rows) :
                              RowBarcode(outSummary.rows[k]) = b }) <= 1

\* a finished run over two tile files that wrote rows of different counts
C5_Witness ==
    /\ pc = "done"
    /\ Len(tile_barcode_files) = 2
    /\ Len(outSummary.rows) >= 2
    /\ outSummary.rows[1].Count > outSummary.rows[2].Count

(* C6: when a counting worker fails the call does not return normally and    *)
(* the output file is never opened: no header and no data row is written,    *)
(* and the call can only end by raising.                                     *)
C6_NoPartialOutput ==
    (\E i \in Tiles : futures[i] = "failed") =>
        /\ pc # "done"
        /\ outSummary = NotOpened
        /\ pc # "raised" => ENABLED Next

\* the call has raised after one worker index was merged and another worker failed
C6_Witness ==
    /\ pc = "raised"
    /\ reduce_db # EmptyCounts
    /\ \E i \in Tiles : futures[i] = "failed"
    /\ outSummary = NotOpened

(* C7: when the call raises because a worker failed, no worker-local index   *)
(* file created for the run exists any more.                                 *)
C7_CleanupOnFailure ==
    pc = "raised" => tmp_exists = {}

\* The run that C8 compares every run with: the futures are delivered in
\* submission order and rows of equal count come in one fixed order.
SubmissionOrder == [i \in Tiles |-> i]

ReferenceDb == MergeInOrder(SubmissionOrder, EmptyCounts)

ReferenceIteration == CHOOSE rows \in get_counts_descending(ReferenceDb) : TRUE

ReferenceSummary ==
    [ opened |-> TRUE,
      header |-> write_header(omitHeader),
      rows |-> write_rows(ReferenceIteration, 0, << >>, truncateToLength, barcode1_len) ]

CountColumn(rows) == [k \in 1..Len(rows) |-> rows[k].Count]

\* the same rows, up to the relative order of rows of equal count
SameUpToTies(a, b) ==
    /\ CountColumn(a) = CountColumn(b)
    /\ { a[k] : k \in 1..Len(a) } = { b[k] : k \in 1..Len(b) }

\* the rows of a table whose count is above the count of its last row
AboveLast(rows) ==
    { rows[k] : k \in { j \in 1..Len(rows) : rows[j].Count > rows[Len(rows)].Count } }

\* the loop ended while a key with the count of the last written row was unwritten
CutInsideTie ==
    /\ outSummary.rows # << >>
    /\ \E b \in DOMAIN reduce_db :
          /\ reduce_db[b] = outSummary.rows[Len(outSummary.rows)].Count
          /\ \A r \in RowsOf(outSummary) : RowBarcode(r) # b

(* C8 as stated: two runs on the same tile files and options write the same  *)
(* rows up to the relative order of rows of equal count. Every run is        *)
(* compared with the reference run on its inputs.                            *)
C8_SameRowsUpToTies ==
    pc = "done" =>
        LET ref == ReferenceSummary
        IN  /\ outSummary.header = ref.header
            /\ SameUpToTies(outSummary.rows, ref.rows)

(* C8 as amended: two runs write the same header and the same sequence of    *)
(* Count values, the same rows above the count of the last written row, and  *)
(* the same rows up to the order of equal counts unless truncation ended the *)
(* loop inside a group of rows of equal count.                               *)
C8_SameRowsUnlessCutInsideTie ==
    pc = "done" =>
        LET ref == ReferenceSummary
        IN  /\ outSummary.header = ref.header
            /\ CountColumn(outSummary.rows) = CountColumn(ref.rows)
            /\ AboveLast(outSummary.rows) = AboveLast(ref.rows)
            /\ ~CutInsideTie => SameUpToTies(outSummary.rows, ref.rows)

\* a truncating run over two tile files that took another order of equal-count
\* rows than the reference run, and still wrote the same rows
C8_Witness ==
    /\ pc = "done"
    /\ Len(tile_barcode_files) = 2
    /\ Truthy(truncateToLength)
    /\ LET ref == ReferenceSummary
       IN  /\ outSummary.rows # ref.rows
           /\ SameUpToTies(outSummary.rows, ref.rows)

\* the Likely_Index_Names column the lookup of a segment calls for
ExpectedNames(segment) ==
    LET names == guess_index(segment, 1)
    IN  IF names = << >> THEN << "Unknown" >> ELSE JoinComma(names)

(* C9: in every data row each Likely_Index_Names column is the comma-join of *)
(* the names the lookup returns for the row's segment at distance 1, it is   *)
(* the token Unknown exactly when the lookup returns no name, and it is      *)
(* never empty.                                                              *)
C9_LikelyIndexNames ==
    \A r \in RowsOf(outSummary) :
        /\ r.Likely_Index_Names1 = ExpectedNames(r.Barcode1)
        /\ r.Likely_Index_Names2 = ExpectedNames(r.Barcode2)
        /\ r.Likely_Index_Names1 = << "Unknown" >> <=> guess_index(r.Barcode1, 1) = << >>
        /\ r.Likely_Index_Names2 = << "Unknown" >> <=> guess_index(r.Barcode2, 1) = << >>
        /\ r.Likely_Index_Names1 # << >>
        /\ r.Likely_Index_Names2 # << >>

\* a row whose first segment matches no index and whose second matches two
C9_Witness ==
    \E r \in RowsOf(outSummary) :
        /\ r.Likely_Index_Names1 = << "Unknown" >>
        /\ Len(guess_index(r.Barcode2, 1)) = 2
        /\ Len(r.Likely_Index_Names2) = 3

(* C10: with no tile file in the directory the call never raises, it runs to *)
(* its end, and it writes no data row and the header row exactly when        *)
(* omitHeader is false.                                                      *)
C10_EmptyDirectory ==
    Len(tile_barcode_files) = 0 =>
        /\ pc \notin { "unwind", "raised" }
        /\ pc # "done" => ENABLED Next
        /\ pc = "done" =>
              /\ outSummary.opened
              /\ outSummary.rows = << >>
              /\ ~omitHeader => outSummary.header = << HeaderRow >>
              /\ omitHeader => outSummary.header = << >>

\* the call has ended on an empty directory and wrote only the header
C10_Witness ==
    /\ Len(tile_barcode_files) = 0
    /\ pc = "done"
    /\ ~omitHeader
    /\ outSummary.header = << HeaderRow >>
    /\ outSummary.rows = << >>

-----------------------------------------------------------------------------
(* guess_barcodes: parser_guess_barcodes, main_guess_barcodes and the        *)
(* helper of util.illumina_indices they drive, IlluminaBarcodeHelper         *)

MaxSamples == 2      \* at most this many samples in the demultiplexing metrics
MaxTableRows == 3    \* at most this many rows in the ranked barcode table

\* The barcodes of the pools modelled, first and second index
GuessBarcode1s == { <<"A">>, <<"C">> }
GuessBarcode2s == { <<"G">>, <<"T">> }

BarcodePairs == GuessBarcode1s \X GuessBarcode2s

\* The read counts a row of the ranked table may carry
CountChoices == { 50, 200 }

\* The reads the metrics may assign to a sample, and may leave unassigned
ReadChoices == { 0, 100 }
UnassignedChoices == { 30, 300 }

\* The sample sheet Picard demultiplexed with: name and expected barcode pair
SampleSheet ==
    << [name |-> "s1", barcodes |-> << <<"A">>, <<"G">> >>],
       [name |-> "s2", barcodes |-> << <<"C">>, <<"G">> >>],
       [name |-> "s3", barcodes |-> << <<"C">>, <<"T">> >>] >>

\* a row of the table as count_and_sort_barcodes writes it
TableRow(pair, count) == format_row(<< pair[1] \o pair[2], count >>, Len(pair[1]))

RowPair(row) == << row.Barcode1, row.Barcode2 >>

\* The tables count_and_sort_barcodes can have written: at most MaxTableRows
\* rows of distinct barcode pairs, by count descending
RankedTables ==
    UNION { { [k \in 1..n |-> TableRow(p[k], c[k])] :
                p \in { q \in [1..n -> BarcodePairs] :
                          \A i, j \in 1..n : i # j => q[i] # q[j] },
                c \in { d \in [1..n -> CountChoices] :
                          \A i \in 1..(n - 1) : d[i] >= d[i + 1] } } :
            n \in 0..MaxTableRows }

\* The metrics of a pool of the first n samples of the sample sheet
MetricsChoices ==
    UNION { { [ samples |-> [k \in 1..n |-> [ name |-> SampleSheet[k].name,
                                              barcodes |-> SampleSheet[k].barcodes,
                                              reads |-> r[k] ]],
                unassigned |-> u ] :
                r \in [1..n -> ReadChoices], u \in UnassignedChoices } :
            n \in 1..MaxSamples }

\* the elements of a set of sample numbers as the sequence of their names
RECURSIVE NamesOf(_)
NamesOf(sel) ==
    IF sel = {} THEN << >>
    ELSE LET k == CHOOSE x \in sel : \A y \in sel : x <= y
         IN  << SampleSheet[k].name >> \o NamesOf(sel \ {k})

\* --sample_names: absent, or some names of samples of the pool
SampleNameChoices ==
    { NoneVal } \cup
    { NamesOf(sel) : sel \in (SUBSET (1..Len(in_picard_metrics.samples))) \ { {} } }

\* --readcount_threshold: absent, or a number of reads
ThresholdChoices == { NoneVal, << 50 >> }

\* --expected_assigned_fraction as a ratio: the default and nine tenths
FractionChoices == { default_expected_assigned_fraction, << 9, 10 >> }

RowsLimitChoices == 1..MaxTableRows

-----------------------------------------------------------------------------
(* IlluminaBarcodeHelper *)

\* the helper's load of in_barcodes: the first rows_limit rows
load_barcodes(table, limit) == SubSeq(table, 1, Min(limit, Len(table)))

RECURSIVE SumReads(_)
SumReads(samples) ==
    IF samples = << >> THEN 0 ELSE Head(samples).reads + SumReads(Tail(samples))

\* the reads Picard assigned to the samples of the pool
assigned_read_count == SumReads(in_picard_metrics.samples)

total_read_count == assigned_read_count + in_picard_metrics.unassigned

\* assigned / total < fraction, the fraction a ratio << numerator, denominator >>
assigned_fraction_below(fraction) ==
    assigned_read_count * fraction[2] < fraction[1] * total_read_count

\* the default of --outlier_threshold, 0.775, as a ratio
outlier_threshold == << 31, 40 >>

\* Automatic selection: a sample is flagged when its reads are below
\* outlier_threshold times the share of a balanced pool, the assigned reads
\* over the number of samples. The pools modelled hold no negative control.
is_outlier(sample) ==
    sample.reads * outlier_threshold[2] * Len(in_picard_metrics.samples)
        < outlier_threshold[1] * assigned_read_count

SamplesOf(metrics) == { metrics.samples[k] : k \in 1..Len(metrics.samples) }

\* the names of the flagged samples in the order of the metrics
RECURSIVE NamesFlagged(_, _)
NamesFlagged(samples, flagged) ==
    IF samples = << >> THEN << >>
    ELSE (IF Head(samples) \in flagged THEN << Head(samples).name >> ELSE << >>)
             \o NamesFlagged(Tail(samples), flagged)

\* the two explicit selection modes are both given
selection_conflict(names, threshold) == ~IsNone(names) /\ ~IsNone(threshold)

\* step 1: the names of the samples to analyse
select_samples(names, threshold) ==
    IF ~IsNone(names) THEN names
    ELSE IF ~IsNone(threshold)
         THEN NamesFlagged(in_picard_metrics.samples,
                  { x \in SamplesOf(in_picard_metrics) : x.reads < IntVal(threshold) })
    ELSE NamesFlagged(in_picard_metrics.samples,
             { x \in SamplesOf(in_picard_metrics) : is_outlier(x) })

SampleNamed(name) ==
    LET k == CHOOSE i \in 1..Len(in_picard_metrics.samples) :
                 in_picard_metrics.samples[i].name = name
    IN  in_picard_metrics.samples[k]

ExpectedPairs ==
    { in_picard_metrics.samples[k].barcodes : k \in 1..Len(in_picard_metrics.samples) }

\* step 2: the rows seen whose barcode pair is the expected pair of no sample
RECURSIVE novel_barcodes(_)
novel_barcodes(rows) ==
    IF rows = << >> THEN << >>
    ELSE (IF RowPair(Head(rows)) \in ExpectedPairs THEN << >> ELSE << Head(rows) >>)
             \o novel_barcodes(Tail(rows))

\* a pair that shares exactly one barcode, in its position, with the expected pair
is_partial_match(pair, expected) ==
    (pair[1] = expected[1]) # (pair[2] = expected[2])

RECURSIVE partial_matches(_, _)
partial_matches(rows, expected) ==
    IF rows = << >> THEN << >>
    ELSE (IF is_partial_match(RowPair(Head(rows)), expected) THEN << Head(rows) >> ELSE << >>)
             \o partial_matches(Tail(rows), expected)

\* the first row of the highest count
most_abundant(rows) ==
    rows[CHOOSE k \in 1..Len(rows) :
            /\ \A j \in 1..Len(rows) : rows[k].Count >= rows[j].Count
            /\ \A j \in 1..(k - 1) : rows[j].Count > rows[k].Count]

GuessedPairs(guesses) ==
    { << guesses[g].guessed_barcode_1, guesses[g].guessed_barcode_2 >> : g \in 1..Len(guesses) }

RECURSIVE unclaimed_rows(_, _)
unclaimed_rows(rows, earlier) ==
    IF rows = << >> THEN << >>
    ELSE (IF RowPair(Head(rows)) \in GuessedPairs(earlier) THEN << >> ELSE << Head(rows) >>)
             \o unclaimed_rows(Tail(rows), earlier)

\* a helper that offers a later sample only the pairs no earlier sample was given
candidates_unclaimed(novel, earlier) == unclaimed_rows(novel, earlier)

\* the novel pairs a sample's guess is chosen among, given the earlier guesses:
\* all of them, a pair guessed for one sample stays a candidate for the next
candidates(novel, earlier) == novel

\* the report row of a sample given the guess chosen for it
guess_result(sample, guess, match_type) ==
    [ sample_name |-> sample.name,
      expected_barcode_1 |-> sample.barcodes[1],
      expected_barcode_2 |-> sample.barcodes[2],
      expected_barcode_1_name |-> likely_index_names(sample.barcodes[1]),
      expected_barcode_2_name |-> likely_index_names(sample.barcodes[2]),
      expected_barcodes_read_count |-> sample.reads,
      guessed_barcode_1 |-> IF guess = << >> THEN NoneVal ELSE guess[1].Barcode1,
      guessed_barcode_2 |-> IF guess = << >> THEN NoneVal ELSE guess[1].Barcode2,
      guessed_barcode_1_name |-> IF guess = << >> THEN NoneVal ELSE guess[1].Likely_Index_Names1,
      guessed_barcode_2_name |-> IF guess = << >> THEN NoneVal ELSE guess[1].Likely_Index_Names2,
      guessed_barcodes_read_count |-> IF guess = << >> THEN NoneVal ELSE << guess[1].Count >>,
      match_type |-> match_type ]

\* a helper that gives up on a sample without a partial match
guess_barcodes_for_sample_partial_only(sample, novel) ==
    LET partial == partial_matches(novel, sample.barcodes)
    IN  IF partial # << >> THEN guess_result(sample, << most_abundant(partial) >>, "partial")
        ELSE guess_result(sample, << >>, "none")

\* a helper that takes the most abundant novel pair whether a partial match exists or not
guess_barcodes_for_sample_by_abundance(sample, novel) ==
    IF novel # << >> THEN guess_result(sample, << most_abundant(novel) >>, "none")
    ELSE guess_result(sample, << >>, "none")

\* step 3: the most abundant partial match; without one the most abundant
\* novel pair; without a novel pair the explicit none result
guess_barcodes_for_sample(sample, novel) ==
    LET partial == partial_matches(novel, sample.barcodes)
    IN  IF partial # << >> THEN guess_result(sample, << most_abundant(partial) >>, "partial")
        ELSE IF novel # << >> THEN guess_result(sample, << most_abundant(novel) >>, "none")
        ELSE guess_result(sample, << >>, "none")

-----------------------------------------------------------------------------
(* parser_guess_barcodes and main_guess_barcodes *)

\* lines 586-595: --readcount_threshold and --sample_names are in one mutually
\* exclusive group; argparse rejects a command line that gives both
group_conflict(names, threshold) == ~IsNone(names) /\ ~IsNone(threshold)

\* a main that hands the helper the read-count threshold only without sample names
helper_readcount_threshold_unless_names ==
    IF ~IsNone(sample_names) THEN NoneVal ELSE readcount_threshold

\* line 658: readcount_threshold=readcount_threshold
helper_readcount_threshold == readcount_threshold

\* line 654: sample_names=sample_names
helper_sample_names == sample_names

\* a main that builds the helper without rows_limit, leaving the helper's default
helper_rows_limit_default(limit) == default_rows_limit

\* line 653: rows_limit is the third argument of IlluminaBarcodeHelper
helper_rows_limit(limit) == limit

\* a main that leaves expected_assigned_fraction at the parser's default
helper_expected_assigned_fraction_default(fraction) == default_expected_assigned_fraction

\* line 656: expected_assigned_fraction=expected_assigned_fraction
helper_expected_assigned_fraction(fraction) == fraction

\* a main that computes the guesses and writes an empty report
written_guesses_none(guesses) == << >>

\* line 660: the guesses find_uncertain_barcodes returned are the rows written
written_guesses(guesses) == guesses

GuessHeaderRow ==
    << "sample_name", "expected_barcode_1", "expected_barcode_2",
       "expected_barcode_1_name", "expected_barcode_2_name",
       "expected_barcodes_read_count", "guessed_barcode_1", "guessed_barcode_2",
       "guessed_barcode_1_name", "guessed_barcode_2_name",
       "guessed_barcodes_read_count", "match_type" >>

\* Before the command runs the metrics file exists. The arguments and the
\* ranked table are drawn by the step that reads them first.
InitGuess ==
    /\ tile_barcode_files = << >>
    /\ CounterIdle
    /\ in_picard_metrics \in MetricsChoices
    /\ GuesserStart
    /\ OthersIdle

\* the command line is parsed: argparse exits with a usage error when both
\* options of the group are given, otherwise main_guess_barcodes is called
ParseArgs ==
    /\ gpc = "start"
    /\ \E names \in SampleNameChoices, threshold \in ThresholdChoices :
         /\ sample_names' = names
         /\ readcount_threshold' = threshold
         /\ IF group_conflict(names, threshold)
            THEN gpc' = "parser_error" /\ error' = "ArgumentError"
            ELSE gpc' = "main" /\ error' = "none"
    /\ UNCHANGED << counter, others, in_barcodes, in_picard_metrics, expected_assigned_fraction,
                    rows_limit, barcodes_seen, samples_to_examine, guessed_barcodes,
                    out_summary_tsv >>

\* main_guess_barcodes is called directly, with any arguments
CallMain ==
    /\ gpc = "start"
    /\ \E names \in SampleNameChoices, threshold \in ThresholdChoices :
         /\ sample_names' = names
         /\ readcount_threshold' = threshold
    /\ gpc' = "main"
    /\ UNCHANGED << counter, others, in_barcodes, in_picard_metrics, expected_assigned_fraction,
                    rows_limit, barcodes_seen, samples_to_examine, guessed_barcodes,
                    error, out_summary_tsv >>

\* line 653: the helper loads the first rows_limit rows of in_barcodes and the metrics
BuildHelper ==
    /\ gpc = "main"
    /\ \E table \in RankedTables, limit \in RowsLimitChoices :
         /\ in_barcodes' = table
         /\ rows_limit' = limit
         /\ barcodes_seen' = load_barcodes(table, helper_rows_limit(limit))
    /\ gpc' = "select"
    /\ UNCHANGED << counter, others, in_picard_metrics, sample_names, readcount_threshold,
                    expected_assigned_fraction, samples_to_examine, guessed_barcodes,
                    error, out_summary_tsv >>

\* find_uncertain_barcodes: more than one selection mode is a ConfigurationError
CheckSelection ==
    /\ gpc = "select"
    /\ IF selection_conflict(helper_sample_names, helper_readcount_threshold)
       THEN gpc' = "raised" /\ error' = "ConfigurationError"
       ELSE gpc' = "pool" /\ error' = error
    /\ UNCHANGED << counter, others, in_barcodes, in_picard_metrics, sample_names,
                    readcount_threshold, expected_assigned_fraction, rows_limit,
                    barcodes_seen, samples_to_examine, guessed_barcodes,
                    out_summary_tsv >>

\* find_uncertain_barcodes: the pool-assignment check, then the selection of
\* the samples to analyse
CheckPoolAssignment ==
    /\ gpc = "pool"
    /\ \E fraction \in FractionChoices :
         /\ expected_assigned_fraction' = fraction
         /\ IF assigned_fraction_below(helper_expected_assigned_fraction(fraction))
            THEN /\ gpc' = "raised"
                 /\ error' = "PoolAssignmentError"
                 /\ samples_to_examine' = samples_to_examine
            ELSE /\ gpc' = "guess"
                 /\ error' = error
                 /\ samples_to_examine' =
                        select_samples(helper_sample_names, helper_readcount_threshold)
    /\ UNCHANGED << counter, others, in_barcodes, in_picard_metrics, sample_names,
                    readcount_threshold, rows_limit, barcodes_seen, guessed_barcodes,
                    out_summary_tsv >>

\* find_uncertain_barcodes: the guess for the next selected sample
GuessSample ==
    /\ gpc = "guess"
    /\ samples_to_examine # << >>
    /\ guessed_barcodes' =
           Append(guessed_barcodes,
                  guess_barcodes_for_sample(
                      SampleNamed(Head(samples_to_examine)),
                      candidates(novel_barcodes(barcodes_seen), guessed_barcodes)))
    /\ samples_to_examine' = Tail(samples_to_examine)
    /\ UNCHANGED << counter, others, in_barcodes, in_picard_metrics, sample_names,
                    readcount_threshold, expected_assigned_fraction, rows_limit, gpc,
                    barcodes_seen, error, out_summary_tsv >>

\* line 660: find_uncertain_barcodes has returned, the report is written
WriteGuessedBarcodes ==
    /\ gpc = "guess"
    /\ samples_to_examine = << >>
    /\ out_summary_tsv' = [ opened |-> TRUE, header |-> GuessHeaderRow,
                            rows |-> written_guesses(guessed_barcodes) ]
    /\ gpc' = "done"
    /\ UNCHANGED << counter, others, in_barcodes, in_picard_metrics, sample_names,
                    readcount_threshold, expected_assigned_fraction, rows_limit,
                    barcodes_seen, samples_to_examine, guessed_barcodes, error >>

NextGuess ==
    \/ ParseArgs
    \/ CallMain
    \/ BuildHelper
    \/ CheckSelection
    \/ CheckPoolAssignment
    \/ GuessSample
    \/ WriteGuessedBarcodes

SpecGuess == InitGuess /\ [][NextGuess]_vars

-----------------------------------------------------------------------------
(* What the claims on guess_barcodes are stated with *)

\* both explicit selection modes were given to the command
BothModes == ~IsNone(sample_names) /\ ~IsNone(readcount_threshold)

\* The error kind of what the command raised: argparse's usage error for two
\* options of a mutually exclusive group is of the kind ConfigurationError
\* ("mutually-exclusive options both specified")
ErrorKind(e) == IF e = "ArgumentError" THEN "ConfigurationError" ELSE e

\* the samples the call analyses
Flagged == select_samples(sample_names, readcount_threshold)

\* the guesses computed so far and the rows written
AllGuesses ==
    { guessed_barcodes[k] : k \in 1..Len(guessed_barcodes) }
        \cup { out_summary_tsv.rows[k] : k \in 1..Len(out_summary_tsv.rows) }

HasGuess(g) == g.guessed_barcode_1 # NoneVal

GuessPair(g) == << g.guessed_barcode_1, g.guessed_barcode_2 >>

\* the rows of the truncated table that are the expected pair of no sample
NovelSeen ==
    { in_barcodes[k] : k \in { j \in 1..Min(rows_limit, Len(in_barcodes)) :
                                 RowPair(in_barcodes[j]) \notin ExpectedPairs } }

\* the novel rows sharing exactly one barcode, in its position, with the pair
PartialFor(expected) ==
    { r \in NovelSeen : \/ r.Barcode1 = expected[1] /\ r.Barcode2 # expected[2]
                        \/ r.Barcode1 # expected[1] /\ r.Barcode2 = expected[2] }

\* the rows of the highest count among the rows given
Top(rows) == { r \in rows : \A q \in rows : q.Count <= r.Count }

\* the guess is one of the rows given, with its count
GuessIsOneOf(g, rows) ==
    \E r \in rows : RowPair(r) = GuessPair(g) /\ g.guessed_barcodes_read_count = << r.Count >>

(* C11: a call that gives both a sample-name list and a read-count threshold *)
(* computes no guess and writes nothing, it cannot end normally, and it ends *)
(* with an error of the kind ConfigurationError: raised from inside          *)
(* main_guess_barcodes when called directly, and as the parser's rejection   *)
(* when the arguments come from the command line.                            *)
C11_MutualExclusivity ==
    (gpc # "start" /\ BothModes) =>
        /\ guessed_barcodes = << >>
        /\ out_summary_tsv = NoReport
        /\ gpc \in { "main", "select", "parser_error", "raised" }
        /\ gpc \in { "parser_error", "raised" } => ErrorKind(error) = "ConfigurationError"
        /\ gpc \in { "main", "select" } => ENABLED NextGuess

\* main_guess_barcodes was called with both, loaded a table with a novel pair and raised
C11_Witness ==
    /\ BothModes
    /\ gpc = "raised"
    /\ error = "ConfigurationError"
    /\ NovelSeen # {}

(* C12: for every analysed sample with expected pair (X,Y), if some novel    *)
(* pair shares exactly one barcode with (X,Y) in the same position, the      *)
(* guess is a most abundant such pair with its count and the match type is   *)
(* partial, whatever the counts of the novel pairs that share none.          *)
C12_PartialMatchPreference ==
    \A g \in AllGuesses :
        LET partial == PartialFor(SampleNamed(g.sample_name).barcodes)
        IN  partial # {} =>
                /\ g.match_type = "partial"
                /\ GuessIsOneOf(g, Top(partial))

\* a written guess is a partial match although a novel pair sharing no
\* barcode with the expected pair has a higher count
C12_Witness ==
    /\ gpc = "done"
    /\ \E g \in AllGuesses :
          /\ g.match_type = "partial"
          /\ \E r \in NovelSeen \ PartialFor(SampleNamed(g.sample_name).barcodes) :
                << r.Count >> # g.guessed_barcodes_read_count
                    /\ r.Count > IntVal(g.guessed_barcodes_read_count)

(* C13: for a call with at most one selection mode, once the assigned        *)
(* fraction is found below expected_assigned_fraction the call raises        *)
(* PoolAssignmentError; no guess is computed and no row is written, neither  *)
(* before nor after, and the call never goes on to the per-sample guesses.   *)
C13_PoolAssignmentCheck ==
    /\ gpc \in { "guess", "done" } => ~assigned_fraction_below(expected_assigned_fraction)
    /\ gpc = "pool" => (guessed_barcodes = << >> /\ out_summary_tsv = NoReport
                            /\ ENABLED CheckPoolAssignment)
    /\ (gpc = "raised" /\ ~BothModes) =>
            /\ error = "PoolAssignmentError"
            /\ assigned_fraction_below(expected_assigned_fraction)
    /\ error = "PoolAssignmentError" =>
            /\ gpc = "raised"
            /\ samples_to_examine = << >>
            /\ guessed_barcodes = << >>
            /\ out_summary_tsv = NoReport

\* the call raised on a pool whose assigned fraction is between the default
\* and the fraction asked for, with a sample to analyse and a novel pair seen
C13_Witness ==
    /\ gpc = "raised"
    /\ error = "PoolAssignmentError"
    /\ ~assigned_fraction_below(default_expected_assigned_fraction)
    /\ Flagged # << >>
    /\ NovelSeen # {}

(* C14: for every analysed sample without a partial match, while a novel     *)
(* pair exists, the guess is a most abundant novel pair overall with its     *)
(* count and the match type is none.                                         *)
C14_AbundanceFallback ==
    \A g \in AllGuesses :
        (PartialFor(SampleNamed(g.sample_name).barcodes) = {} /\ NovelSeen # {}) =>
            /\ g.match_type = "none"
            /\ HasGuess(g)
            /\ GuessIsOneOf(g, Top(NovelSeen))

\* a written guess shares no barcode with the expected pair of its sample
C14_Witness ==
    /\ gpc = "done"
    /\ \E g \in AllGuesses :
          /\ HasGuess(g)
          /\ g.match_type = "none"
          /\ g.guessed_barcode_1 # g.expected_barcode_1
          /\ g.guessed_barcode_2 # g.expected_barcode_2

(* C15: a guessed pair is a row among the first rows_limit rows of the       *)
(* ranked table, with that row's count, and it is the expected pair of no    *)
(* sample of the metrics.                                                    *)
C15_GuessIsNovel ==
    \A g \in AllGuesses :
        HasGuess(g) =>
            /\ \E k \in 1..Min(rows_limit, Len(in_barcodes)) :
                  /\ RowPair(in_barcodes[k]) = GuessPair(g)
                  /\ g.guessed_barcodes_read_count = << in_barcodes[k].Count >>
            /\ GuessPair(g) \notin ExpectedPairs

\* a guess was written while the table holds an expected pair above the
\* guessed row and a novel pair below rows_limit
C15_Witness ==
    /\ gpc = "done"
    /\ \E g \in AllGuesses : HasGuess(g)
    /\ \E k \in 1..Min(rows_limit, Len(in_barcodes)) : RowPair(in_barcodes[k]) \in ExpectedPairs
    /\ \E k \in (rows_limit + 1)..Len(in_barcodes) : RowPair(in_barcodes[k]) \notin ExpectedPairs

(* C16: with no novel pair in the table the call does not fail for it: it    *)
(* goes on to its end, and the report has exactly one row per analysed       *)
(* sample, in order, each with no guessed pair, no guessed count and the     *)
(* match type none.                                                          *)
C16_NoNovelIsNotFatal ==
    NovelSeen = {} =>
        /\ gpc \in { "guess", "done" } => error = "none"
        /\ gpc = "guess" => ENABLED NextGuess
        /\ gpc = "done" =>
              /\ out_summary_tsv.opened
              /\ Len(out_summary_tsv.rows) = Len(Flagged)
              /\ \A k \in 1..Len(Flagged) :
                    /\ out_summary_tsv.rows[k].sample_name = Flagged[k]
                    /\ ~HasGuess(out_summary_tsv.rows[k])
                    /\ out_summary_tsv.rows[k].guessed_barcode_2 = NoneVal
                    /\ out_summary_tsv.rows[k].guessed_barcodes_read_count = NoneVal
                    /\ out_summary_tsv.rows[k].match_type = "none"

\* two samples were analysed against a table of expected pairs only
C16_Witness ==
    /\ gpc = "done"
    /\ barcodes_seen # << >>
    /\ NovelSeen = {}
    /\ Len(out_summary_tsv.rows) = 2
    /\ out_summary_tsv.rows[1].sample_name # out_summary_tsv.rows[2].sample_name

\* the candidates a sample's guess is the best of
BestFor(expected) ==
    IF PartialFor(expected) # {} THEN Top(PartialFor(expected)) ELSE Top(NovelSeen)

(* C17: when two analysed samples have the same single best candidate, the   *)
(* guess of each of them is that pair: the pair guessed for the earlier      *)
(* sample is still a candidate for the later one.                            *)
C17_NoDisambiguation ==
    \A g1, g2 \in AllGuesses :
        LET best1 == BestFor(SampleNamed(g1.sample_name).barcodes)
            best2 == BestFor(SampleNamed(g2.sample_name).barcodes)
        IN  (g1.sample_name # g2.sample_name /\ best1 = best2 /\ Cardinality(best1) = 1) =>
                /\ GuessIsOneOf(g1, best1)
                /\ GuessIsOneOf(g2, best1)

\* the report gives two samples the same pair, one as a partial match
C17_Witness ==
    /\ gpc = "done"
    /\ Len(out_summary_tsv.rows) = 2
    /\ HasGuess(out_summary_tsv.rows[1])
    /\ GuessPair(out_summary_tsv.rows[1]) = GuessPair(out_summary_tsv.rows[2])
    /\ out_summary_tsv.rows[1].sample_name # out_summary_tsv.rows[2].sample_name

-----------------------------------------------------------------------------
(* The gather loop of count_and_sort_barcodes, step by step *)

\* the futures this step of the gather loop has taken from as_completed
NewlyYielded == yielded' \ yielded

\* the index files this step has unlinked
NewlyUnlinked == tmp_exists \ tmp_exists'

\* in every state: one task and one private, existing or already merged, index
\* per tile file
C18_State ==
    /\ \A i, j \in Tiles : i # j => tmp_file(i) # tmp_file(j)
    /\ pc # "start" => \A i \in Tiles : futures[i] # "none"
    /\ pc # "start" =>
          \A i \in Tiles : tmp_file(i) \notin tmp_exists =>
              (i \in yielded /\ futures[i] = "finished")
    /\ pc = "done" =>
          /\ tmp_exists = {}
          /\ yielded = Tiles
          /\ reduce_db = MergeInOrder(SubmissionOrder, EmptyCounts)

\* in every step: a submission creates the index file of every tile file and a
\* pending task for it; a finished future is taken once, its index as the worker
\* left it is merged in that step and unlinked by it, and nothing else is unlinked
C18_Step ==
    /\ (pc = "start" /\ pc' # "start") =>
          \A i \in Tiles : futures'[i] = "pending" /\ tmp_file(i) \in tmp_exists'
    /\ \A i \in NewlyYielded :
          futures[i] = "finished" =>
              /\ tmp_file(i) \in tmp_exists
              /\ reduce_db' = reduce_step(reduce_db, WorkerResult(i))
              /\ NewlyUnlinked = { tmp_file(i) }
    /\ \A f \in NewlyUnlinked : \E i \in NewlyYielded : tmp_file(i) = f

(* C18: every tile file is submitted as one task with an index path of its   *)
(* own; on a run without a failure every worker index is merged exactly once *)
(* into the reduction index, an index file is unlinked only by the step that *)
(* merged it, and when the run ends no index file is left.                   *)
C18_OneTaskOneMergeOneUnlink == []C18_State /\ [][C18_Step]_vars

\* a run over two tile files ended: both indexes were merged and unlinked
C18_Witness ==
    /\ pc = "done"
    /\ Len(tile_barcode_files) = 2
    /\ WorkerResult(1) # EmptyCounts
    /\ WorkerResult(2) # EmptyCounts
    /\ tmp_exists = {}

\* in every state: two tasks never share an index, and the index of a task
\* that is not finished has not been taken by the gather loop
C19_State ==
    /\ \A i, j \in Running : i # j => tmp_file(i) # tmp_file(j)
    /\ \A i \in Tiles : futures[i] \in { "none", "pending", "running" } =>
          (i \notin yielded /\ (pc # "start" => tmp_file(i) \in tmp_exists))

\* in every step: the gather loop takes the index of a future only when its
\* worker is done and no running worker writes that index; the reduction
\* index changes only by the merge of one such index, never in a step of a worker
C19_Step ==
    /\ \A i \in NewlyYielded :
          /\ futures[i] \in { "finished", "failed" }
          /\ \A j \in Running : tmp_file(j) # tmp_file(i)
    /\ Cardinality(NewlyYielded) <= 1
    /\ reduce_db' # reduce_db =>
          (futures' = futures /\ tmp_db' = tmp_db /\ Cardinality(NewlyYielded) = 1)
    /\ (futures' # futures \/ tmp_db' # tmp_db) => reduce_db' = reduce_db

(* C19: in every interleaving the caller's merge reads a worker index only   *)
(* after its worker is done, no two workers write the same index, and the    *)
(* reduction index is changed only by the caller's merge, one index a step.  *)
C19_NoConcurrentAccess == []C19_State /\ [][C19_Step]_vars

\* one index has been merged while the worker of another tile file is running
C19_Witness ==
    /\ pc = "gather"
    /\ yielded # {}
    /\ reduce_db # EmptyCounts
    /\ Running # {}

(* C20: once the output file holds anything, every worker has completed and  *)
(* every index is merged: the reduction index is the full reduction and the  *)
(* count of every data row is the total of its barcode over all tile files.  *)
C20_OutputAfterFullReduction ==
    outSummary # NotOpened =>
        /\ \A i \in Tiles : futures[i] = "finished" /\ i \in yielded
        /\ tmp_exists = {}
        /\ reduce_db = MergeInOrder(SubmissionOrder, EmptyCounts)
        /\ \A r \in RowsOf(outSummary) : r.Count = CountedLinesWith(RowBarcode(r))

\* the written table has a row whose count is the sum over two tile files
C20_Witness ==
    /\ outSummary.opened
    /\ Len(tile_barcode_files) = 2
    /\ \E r \in RowsOf(outSummary) :
          /\ RowBarcode(r) \in DOMAIN WorkerResult(1)
          /\ RowBarcode(r) \in DOMAIN WorkerResult(2)
          /\ r.Count = WorkerResult(1)[RowBarcode(r)] + WorkerResult(2)[RowBarcode(r)]

(* C21: the caller merges in completion order: whenever a future has        *)
(* finished and is not yet delivered, the caller's next step can be the      *)
(* merge of its index, whatever the state of the workers submitted before    *)
(* it or after it; it waits neither for an earlier task nor for all tasks.   *)
C21_CompletionOrder ==
    \A i \in Tiles :
        (pc = "gather" /\ futures[i] = "finished" /\ i \notin yielded) =>
            ENABLED (/\ Next
                     /\ yielded' = yielded \cup {i}
                     /\ reduce_db' = reduce_step(reduce_db, WorkerResult(i)))

\* the index of the second tile file is merged while the worker of the first is running
C21_Witness ==
    /\ pc = "gather"
    /\ Len(tile_barcode_files) = 2
    /\ yielded = {2}
    /\ reduce_db = WorkerResult(2)
    /\ reduce_db # EmptyCounts
    /\ futures[1] = "running"

\* after the caller has observed a failed worker, a step merges nothing and
\* starts no pending task
C22_Step ==
    pc \in { "unwind", "raised" } =>
        /\ reduce_db' = reduce_db
        /\ yielded' = yielded
        /\ \A i \in Tiles : futures[i] = "pending" => futures'[i] = "pending"

(* C22: once the caller has observed a failed worker no worker index is      *)
(* merged into the reduction index any more, and no task that had not        *)
(* started by then is started.                                               *)
C22_FailFast == [][C22_Step]_vars

\* the data rows hold the keys of the reduction index, each once, split at barcode1_len
RowOfKey(r, b) ==
    /\ r.Barcode1 = SubSeq(b, 1, Min(barcode1_len, Len(b)))
    /\ r.Barcode2 = SubSeq(b, Min(barcode1_len, Len(b)) + 1, Len(b))
    /\ r.Barcode1 \o r.Barcode2 = b
    /\ r.Count = reduce_db[b]

(* C25: every data row is the row of a counted barcode string: Barcode1 is   *)
(* its first barcode1_len characters (all of it when barcode1_len is larger, *)
(* none when it is 0), Barcode2 is the rest, the two concatenated are the    *)
(* string and Count is its count. barcode2_len is read by no step.           *)
C25_BarcodeSlicing ==
    \A r \in RowsOf(outSummary) :
        /\ \E b \in DOMAIN reduce_db : RowOfKey(r, b)
        /\ Len(r.Barcode1) <= barcode1_len
        /\ r.Barcode2 # << >> => Len(r.Barcode1) = barcode1_len

\* rows were written with barcode1_len 0: the whole string is in Barcode2
C25_Witness ==
    /\ pc = "done"
    /\ barcode1_len = 0
    /\ \E r \in RowsOf(outSummary) : r.Barcode1 = << >> /\ Len(r.Barcode2) = 2

-----------------------------------------------------------------------------
(* The process pool of count_and_sort_barcodes under every requested thread  *)
(* count, with the scheduling the pool and the caller's loop guarantee       *)

\* threads as a caller may give it: None, negative, 0, and up to one more
\* than the host has
AllThreadChoices == { NoneVal } \cup { << n >> : n \in (0 - 1)..(AvailableCpus + 1) }

\* directories of up to one tile file more than MaxTiles, one line each
PoolDirChoices ==
    { [i \in 1..n |-> << << "A", "C" >> >>] : n \in 0..(MaxTiles + 1) }

InitPool ==
    /\ tile_barcode_files \in PoolDirChoices
    /\ CounterIdle
    /\ GuesserIdle
    /\ OthersIdle

SubmitPool == SubmitWith({ FALSE }, AllThreadChoices)

NextPool ==
    \/ SubmitPool
    \/ \E i \in Tiles : WorkerStart(i)
    \/ \E i \in Tiles : WorkerFinish(i)
    \/ \E i \in Tiles : WorkerFail(i)
    \/ \E i \in Tiles : MergeCompleted(i)
    \/ \E i \in Tiles : ResultRaises(i)
    \/ Unwind
    \/ WriteOutput

\* a running worker returns or raises
WorkerEnds == \E i \in Tiles : WorkerFinish(i) \/ WorkerFail(i)

\* the caller's loop takes a done future that as_completed holds ready
GatherStep == \E i \in Tiles : MergeCompleted(i) \/ ResultRaises(i)

\* The call is made; the pool starts a queued task when a process is free; every
\* running worker eventually returns or raises; the caller, a sequential
\* program, takes its next step when it can.
FairPool ==
    /\ WF_vars(SubmitPool)
    /\ WF_vars(\E i \in Tiles : WorkerStart(i))
    /\ WF_vars(WorkerEnds)
    /\ WF_vars(GatherStep)
    /\ WF_vars(Unwind)
    /\ WF_vars(WriteOutput)

SpecPool == InitPool /\ [][NextPool]_vars /\ FairPool

(* C24: for every requested value of threads (None, negative, 0, larger than *)
(* the host has) the worker count of the pool is at least 1 and at most the  *)
(* available concurrency, and never more workers than that run at once.      *)
C24_SanitizedWorkers ==
    pc # "start" =>
        /\ 1 <= workers
        /\ workers <= AvailableCpus
        /\ Cardinality(Running) <= workers

\* more threads were asked for than the host has: as many workers as the host
\* has are running and a task is waiting
C24_Witness ==
    /\ ~IsNone(threads)
    /\ IntVal(threads) > AvailableCpus
    /\ Cardinality(Running) = AvailableCpus
    /\ \E i \in Tiles : futures[i] = "pending"

\* the call has ended
Ended == pc \in { "done", "raised" }

\* how the call may have ended: the reduction index closed and no worker
\* running, and either the whole table written or the output file untouched
EndedWell ==
    /\ ~reduce_open
    /\ Running = {}
    /\ pc = "done" =>
          /\ outSummary.opened
          /\ outSummary.header = write_header(omitHeader)
          /\ \E rows \in counts_iteration :
                outSummary.rows = write_rows(rows, 0, << >>, truncateToLength, barcode1_len)
    /\ pc = "raised" =>
          /\ \E i \in Tiles : futures[i] = "failed"
          /\ outSummary = NotOpened

(* C29: when every worker eventually returns or raises, the call eventually  *)
(* ends, and it ends with the reduction index closed, no worker running, and *)
(* either the whole output table written or an exception raised.             *)
C29_Terminates == <>Ended /\ [](Ended => EndedWell)

\* the call raised after the executor waited for a worker that finished
C29_Witness ==
    /\ pc = "raised"
    /\ ~reduce_open
    /\ \E i \in Tiles : futures[i] = "finished" /\ i \notin yielded

-----------------------------------------------------------------------------
(* main_illumina_demux with its background call of count_and_sort_barcodes  *)

\* line 232: threads=util.misc.sanitize_thread_count(args.threads)
DemuxThreadChoices == { << sanitize_thread_count(t) >> : t \in AllThreadChoices }

\* an empty file, as util.file.touch leaves it
TouchedFile == [opened |-> TRUE, header |-> << >>, rows |-> << >>]

\* the tile files Picard's ExtractIlluminaBarcodes will write, and the arguments
InitDemux ==
    /\ tile_barcode_files \in PoolDirChoices
    /\ CounterIdle
    /\ GuesserIdle
    /\ multiplexed_samples \in BOOLEAN
    /\ commonBarcodes \in BOOLEAN
    /\ DemuxStart
    /\ SheetIdle
    /\ DirectoryIdle

\* lines 117-196: the run directory, the sample sheet and the read structure are
\* prepared; without 'B' in the read structure a requested commonBarcodes file
\* is touched
DemuxPrepare ==
    /\ dpc = "start"
    /\ IF multiplexed_samples
       THEN dpc' = "extract" /\ outSummary' = outSummary
       ELSE /\ dpc' = "basecalls"
            /\ outSummary' = IF commonBarcodes THEN TouchedFile ELSE outSummary
    /\ UNCHANGED << inputs, pc, futures, tmp_db, tmp_exists, yielded, reduce_db,
                    reduce_open >>
    /\ UNCHANGED << multiplexed_samples, commonBarcodes, barcodes_tmpdir, executor,
                    exit_status >>
    /\ UNCHANGED beside_demuxer

\* lines 199-215: barcodes_tmpdir is made and Picard's ExtractIlluminaBarcodes
\* fills it, or raises
ExtractBarcodes ==
    /\ dpc = "extract"
    /\ barcodes_tmpdir' = "exists"
    /\ dpc' \in { "submit", "raised" }
    /\ UNCHANGED << multiplexed_samples, commonBarcodes, executor, exit_status >>
    /\ UNCHANGED << counter, beside_demuxer >>

\* lines 217-232: with commonBarcodes the count is handed to a new
\* ProcessPoolExecutor; the future that submit returns is not kept
SubmitCount ==
    /\ dpc = "submit"
    /\ executor' = IF commonBarcodes THEN "running" ELSE executor
    /\ dpc' = "basecalls"
    /\ UNCHANGED << multiplexed_samples, commonBarcodes, barcodes_tmpdir, exit_status >>
    /\ UNCHANGED << counter, beside_demuxer >>

\* lines 234-299: Picard's IlluminaBasecallsToSam runs, or raises
BasecallsToSam ==
    /\ dpc = "basecalls"
    /\ dpc' \in { "cleanup", "raised" }
    /\ UNCHANGED << multiplexed_samples, commonBarcodes, barcodes_tmpdir, executor,
                    exit_status >>
    /\ UNCHANGED << counter, beside_demuxer >>

\* the background call has returned or raised
TaskFinished == pc \in { "done", "raised" }

\* a caller that shuts the executor down with wait=False
ShutdownWithoutWaiting ==
    /\ dpc = "cleanup"
    /\ executor' = IF executor = "running" THEN "shutdown" ELSE executor
    /\ dpc' = "rmtree"
    /\ UNCHANGED << multiplexed_samples, commonBarcodes, barcodes_tmpdir, exit_status >>
    /\ UNCHANGED << counter, beside_demuxer >>

\* lines 302-305: executor.shutdown(wait=True) returns when the background call
\* has ended, however it ended
ShutdownExecutor ==
    /\ dpc = "cleanup"
    /\ executor = "running" => TaskFinished
    /\ executor' = IF executor = "running" THEN "shutdown" ELSE executor
    /\ dpc' = "rmtree"
    /\ UNCHANGED << multiplexed_samples, commonBarcodes, barcodes_tmpdir, exit_status >>
    /\ UNCHANGED << counter, beside_demuxer >>

\* lines 306-311: the temp files and barcodes_tmpdir are removed, the run
\* directory is closed, main returns 0
RemoveAndReturn ==
    /\ dpc = "rmtree"
    /\ barcodes_tmpdir' = IF multiplexed_samples THEN "removed" ELSE barcodes_tmpdir
    /\ exit_status' = << 0 >>
    /\ dpc' = "returned"
    /\ UNCHANGED << multiplexed_samples, commonBarcodes, executor >>
    /\ UNCHANGED << counter, beside_demuxer >>

\* line 232: the background process runs count_and_sort_barcodes on
\* barcodes_tmpdir with the sanitized thread count
TaskStep ==
    /\ executor = "running"
    /\ \/ SubmitWith({ FALSE }, DemuxThreadChoices)
       \/ \E i \in Tiles : WorkerStart(i)
       \/ \E i \in Tiles : WorkerFinish(i) \/ WorkerFail(i)
       \/ \E i \in Tiles : MergeCompleted(i) \/ ResultRaises(i)
       \/ Unwind
       \/ WriteOutput

NextDemux ==
    \/ DemuxPrepare
    \/ ExtractBarcodes
    \/ SubmitCount
    \/ BasecallsToSam
    \/ ShutdownExecutor
    \/ RemoveAndReturn
    \/ TaskStep

SpecDemux == InitDemux /\ [][NextDemux]_vars

(* C23: when the background count_and_sort_barcodes fails, main_illumina_demux *)
(* does not return 0.                                                        *)
C23_BackgroundFailureReported ==
    (dpc = "returned" /\ executor # "none" /\ pc = "raised") => exit_status # << 0 >>

\* the counting task lists barcodes_tmpdir or reads a tile file of it
TaskTouchesDirectory ==
    \/ pc = "start" /\ pc' = "gather"
    \/ \E i \in Tiles : futures[i] = "pending" /\ futures'[i] = "running"
    \/ \E i \in Tiles : futures[i] = "running" /\ futures'[i] # "running"

C27_State == barcodes_tmpdir = "removed" => (executor # "none" => TaskFinished)

C27_Step ==
    /\ (barcodes_tmpdir # "removed" /\ barcodes_tmpdir' = "removed") =>
          (executor # "none" => TaskFinished)
    /\ TaskTouchesDirectory => barcodes_tmpdir = "exists" /\ barcodes_tmpdir' = "exists"

(* C27: barcodes_tmpdir is removed only after the background counting task   *)
(* has finished: the task never lists the directory or reads a tile file of  *)
(* it when it is removed.                                                    *)
C27_RemovedAfterTask == []C27_State /\ [][C27_Step]_vars

\* the directory is removed after a background count of several tile files
\* wrote its table
C27_Witness ==
    /\ barcodes_tmpdir = "removed"
    /\ executor = "shutdown"
    /\ pc = "done"
    /\ Len(tile_barcode_files) >= 2
    /\ outSummary.opened

-----------------------------------------------------------------------------
(* SampleSheet._detect_and_load_sheet, the loop over the lines of a CSV file *)

MaxSheetLines == 4

\* The lines a sheet is made of: a line is the sequence of its stripped cells,
\* a blank line has none
LineChoices ==
    { << >>,
      << "[Header]" >>,
      << "[Data]" >>,
      << "Sample_ID", "index" >>,
      << "s1", "ACGT" >>,
      << "s2", "ACGT", "TTGA" >> }

SheetChoices == UNION { [1..n -> LineChoices] : n \in 0..MaxSheetLines }

\* line 1152: len(line.rstrip('\r\n').strip()) == 0
is_blank(line) == line = << >>

\* the cells of the model that start with '['
BracketCells == { "[Header]", "[Data]" }

\* line 1162: line.startswith('[')
starts_with_bracket(line) == line # << >> /\ line[1] \in BracketCells

\* line 1158: line.startswith('[Data]')
starts_with_data(line) == line # << >> /\ line[1] = "[Data]"

\* the cells of the model whose lower case contains 'sample'
mentions_sample(cell) == cell \in { "Sample_ID", "SampleID" }

InSeq(x, seq) == \E i \in DOMAIN seq : seq[i] = x

\* lines 1169-1174: keymapper.get of a Broad Platform MiSeq sheet, None as ""
keymap_broad_miseq(k) ==
    CASE k = "Sample_ID" -> "sample"
      [] k = "Index" -> "barcode_1"
      [] k = "Index2" -> "barcode_2"
      [] k = "Sample_Name" -> "sample_name"
      [] OTHER -> ""

\* lines 1178-1183: keymapper.get of a MiSeq sheet
keymap_miseq(k) ==
    CASE k = "Sample_ID" -> "sample"
      [] k = "index" -> "barcode_1"
      [] k = "index2" -> "barcode_2"
      [] k = "Sample_Name" -> "sample_name"
      [] OTHER -> ""

\* lines 1187-1194: keymapper.get of a Broad Platform HiSeq sheet
keymap_hiseq(k) ==
    CASE k = "SampleID" -> "sample"
      [] k = "Index" -> "barcode_1"
      [] k = "Index2" -> "barcode_2"
      [] k = "libraryName" -> "library_id_per_sample"
      [] k = "FCID" -> "flowcell"
      [] k = "Lane" -> "lane"
      [] OTHER -> ""

\* line 1198: the header of a walk-up submission sheet
walkup_header == << "sample", "barcode_1", "barcode_2" >>

\* lines 1166-1209: the format a first row is taken for
sheet_format(row) ==
    CASE InSeq("Sample_ID", row) /\ InSeq("Index", row) -> "broad_miseq"
      [] InSeq("Sample_ID", row) /\ ~InSeq("Index", row) -> "miseq"
      [] ~InSeq("Sample_ID", row) /\ InSeq("SampleID", row) -> "hiseq"
      [] ~InSeq("Sample_ID", row) /\ ~InSeq("SampleID", row) /\ Len(row) = 3 -> "walkup"
      [] OTHER -> "unrecognized"

\* lines 1166-1198: the column names the first row gives
detect_header(row) ==
    CASE sheet_format(row) = "broad_miseq" -> [i \in DOMAIN row |-> keymap_broad_miseq(row[i])]
      [] sheet_format(row) = "miseq" -> [i \in DOMAIN row |-> keymap_miseq(row[i])]
      [] sheet_format(row) = "hiseq" -> [i \in DOMAIN row |-> keymap_hiseq(row[i])]
      [] sheet_format(row) = "walkup" -> walkup_header
      [] OTHER -> row

\* lines 1218-1222: the row padded to the header's length
padded(row) ==
    [i \in 1..(IF Len(row) < Len(header) THEN Len(header) ELSE Len(row)) |->
        IF i <= Len(row) THEN row[i] ELSE ""]

\* line 1223: dict((k, v) for k, v in zip(header, row) if k and v), a later
\* column of the same name replacing an earlier one
row_dict(hdr, row) ==
    { << hdr[i], row[i] >> : i \in
        { i \in DOMAIN hdr :
            /\ hdr[i] # ""
            /\ row[i] # ""
            /\ \A j \in DOMAIN hdr : (j > i /\ hdr[j] = hdr[i]) => row[j] = "" } }

has_field(fields, k) == \E kv \in fields : kv[1] = k

\* the line the loop takes next
line == infile[line_no + 1]

Mark(what) == [parsed_as EXCEPT ![line_no + 1] = what]

Reading == sheet_error = "none" /\ line_no < Len(infile)

\* lines 1152-1153: a blank line is passed over
SkipBlank ==
    /\ Reading
    /\ is_blank(line)
    /\ line_no' = line_no + 1
    /\ parsed_as' = Mark("blank")
    /\ UNCHANGED << infile, miseq_skip, header, row_num, sheet_rows, sheet_error >>
    /\ UNCHANGED beside_sheet

\* lines 1157-1161: while skipping, the [Data] line ends the skipping and any
\* other line is passed over
SkipMiseqLine ==
    /\ Reading
    /\ ~is_blank(line)
    /\ miseq_skip
    /\ miseq_skip' = ~starts_with_data(line)
    /\ line_no' = line_no + 1
    /\ parsed_as' = Mark("skipped")
    /\ UNCHANGED << infile, header, row_num, sheet_rows, sheet_error >>
    /\ UNCHANGED beside_sheet

\* lines 1162-1164: a line starting with '[' starts the skipping
EnterMiseqSection ==
    /\ Reading
    /\ ~is_blank(line)
    /\ ~miseq_skip
    /\ starts_with_bracket(line)
    /\ miseq_skip' = TRUE
    /\ line_no' = line_no + 1
    /\ parsed_as' = Mark("skipped")
    /\ UNCHANGED << infile, header, row_num, sheet_rows, sheet_error >>
    /\ UNCHANGED beside_sheet

\* lines 1165-1211: the first line that is not skipped gives the header; the
\* row of a walk-up sheet without header line is a data row at once; an
\* unrecognized row or a header without sample or barcode_1 raises
TakeHeader ==
    /\ Reading
    /\ ~is_blank(line)
    /\ ~miseq_skip
    /\ ~starts_with_bracket(line)
    /\ header = NoneVal
    /\ header' = detect_header(line)
    /\ LET walkup_row == sheet_format(line) = "walkup" /\ ~mentions_sample(line[1])
       IN  /\ row_num' = IF walkup_row THEN row_num + 1 ELSE row_num
           /\ sheet_rows' =
                 IF walkup_row
                 THEN Append(sheet_rows,
                             [fields |-> { << "sample", line[1] >>,
                                           << "barcode_1", line[2] >>,
                                           << "barcode_2", line[3] >> },
                              row_num |-> row_num + 1])
                 ELSE sheet_rows
           /\ parsed_as' = Mark(IF walkup_row THEN "data" ELSE "header")
    /\ sheet_error' =
          IF sheet_format(line) = "unrecognized" THEN "SampleSheetError"
          ELSE IF InSeq("sample", header') /\ InSeq("barcode_1", header') THEN "none"
          ELSE "AssertionError"
    /\ line_no' = line_no + 1
    /\ UNCHANGED << infile, miseq_skip >>
    /\ UNCHANGED beside_sheet

\* lines 1212-1228: a data row, padded to the header; a row longer than the
\* header fails the assertion; a row with sample and barcode_1 is kept
TakeRow ==
    /\ Reading
    /\ ~is_blank(line)
    /\ ~miseq_skip
    /\ ~starts_with_bracket(line)
    /\ header # NoneVal
    /\ row_num' = row_num + 1
    /\ IF Len(padded(line)) # Len(header)
       THEN sheet_error' = "AssertionError" /\ sheet_rows' = sheet_rows
       ELSE /\ sheet_error' = sheet_error
            /\ LET fields == row_dict(header, padded(line))
               IN  sheet_rows' =
                      IF has_field(fields, "sample") /\ has_field(fields, "barcode_1")
                      THEN Append(sheet_rows, [fields |-> fields, row_num |-> row_num + 1])
                      ELSE sheet_rows
    /\ parsed_as' = Mark("data")
    /\ line_no' = line_no + 1
    /\ UNCHANGED << infile, miseq_skip, header >>
    /\ UNCHANGED beside_sheet

InitSheet ==
    /\ tile_barcode_files = << >>
    /\ CounterIdle
    /\ GuesserIdle
    /\ DemuxIdle
    /\ infile \in SheetChoices
    /\ SheetStart
    /\ DirectoryIdle

NextSheet ==
    \/ SkipBlank
    \/ SkipMiseqLine
    \/ EnterMiseqSection
    \/ TakeHeader
    \/ TakeRow

SpecSheet == InitSheet /\ [][NextSheet]_vars

\* the sheet has a line starting with [Data]
DataLines == { k \in DOMAIN infile : starts_with_data(infile[k]) }

FirstData == CHOOSE k \in DataLines : \A j \in DataLines : k <= j

BracketLines == { k \in DOMAIN infile : starts_with_bracket(infile[k]) }

FirstBracket == CHOOSE k \in BracketLines : \A j \in BracketLines : k <= j

AfterData == { k \in DOMAIN infile : k > FirstData /\ ~is_blank(infile[k]) }

HeaderLine == CHOOSE k \in AfterData : \A j \in AfterData : k <= j

(* C26: in a sheet with a [Data] line, no line from the first bracketed line *)
(* up to and including the first [Data] line is parsed as header or data,    *)
(* the first non-blank line after the first [Data] line is taken as the      *)
(* header, and the non-blank lines after it as data rows.                    *)
C26_DataSection ==
    DataLines # {} =>
        /\ \A k \in FirstBracket..FirstData : parsed_as[k] \notin { "header", "data" }
        /\ AfterData # {} =>
              /\ parsed_as[HeaderLine] \in { "unread", "header" }
              /\ \A k \in AfterData :
                    k > HeaderLine => parsed_as[k] \in { "unread", "data" }

-----------------------------------------------------------------------------
(* IlluminaDirectory: any sequence of load() and close() on one object      *)

MaxCalls == 4

MaxDepth == 1

\* what uri may name: a directory of the user, a tarball, a file that does not
\* extract, or something with '://' in it
UriChoices == { "directory", "tarball", "broken_tarball", "remote" }

\* the layout below the root (the user's directory or the extracted tarball):
\* so many levels of a single subdirectory, then Data/Intensities/BaseCalls
\* or not
TreeChoices == (0..MaxDepth) \X BOOLEAN

\* lines 704-720: _fix_path follows the single subdirectories from the root
\* down and raises where it finds no BaseCalls and no single subdirectory
fix_path(root) == << root, tree[1] >>

fix_path_raises == ~tree[2]

\* a close that removes whatever self.path is under
self_path_root == IF path = NoneVal THEN NoneVal ELSE << path[1] >>

\* line 728: what close() tests and removes, self.tempDir
close_target == tempDir

Logged(method, outcome) == Append(call_log, << method, outcome >>)

\* lines 689-702, 704-725: load()
load ==
    /\ Len(call_log) < MaxCalls
    /\ IF path # NoneVal
       THEN /\ call_log' = Logged("load", "returned")
            /\ UNCHANGED << path, tempDir, disk >>
       ELSE CASE uri = "remote" ->
                   /\ call_log' = Logged("load", "NotImplementedError")
                   /\ UNCHANGED << path, tempDir, disk >>
              [] uri = "directory" ->
                   /\ path' = fix_path("uri")
                   /\ call_log' = Logged("load", IF fix_path_raises THEN "Exception"
                                                 ELSE "returned")
                   /\ UNCHANGED << tempDir, disk >>
              [] uri = "tarball" ->
                   /\ tempDir' = << "tmp" >>
                   /\ disk' = disk \cup { "tmp" }
                   /\ path' = fix_path("tmp")
                   /\ call_log' = Logged("load", IF fix_path_raises THEN "Exception"
                                                 ELSE "returned")
              [] uri = "broken_tarball" ->
                   /\ tempDir' = << "tmp" >>
                   /\ disk' = disk \cup { "tmp" }
                   /\ path' = << "tmp", 0 >>
                   /\ call_log' = Logged("load", "ExtractError")
    /\ UNCHANGED << uri, tree, removed >>
    /\ UNCHANGED beside_directory

\* lines 727-730: close()
close ==
    /\ Len(call_log) < MaxCalls
    /\ IF close_target # NoneVal
       THEN /\ disk' = disk \ { close_target[1] }
            /\ removed' = Append(removed, close_target[1])
            /\ tempDir' = NoneVal
       ELSE UNCHANGED << disk, removed, tempDir >>
    /\ call_log' = Logged("close", "returned")
    /\ UNCHANGED << uri, tree, path >>
    /\ UNCHANGED beside_directory

InitDirectory ==
    /\ tile_barcode_files = << >>
    /\ CounterIdle
    /\ GuesserIdle
    /\ DemuxIdle
    /\ SheetIdle
    /\ uri \in UriChoices
    /\ tree \in TreeChoices
    /\ DirectoryStart

NextDirectory ==
    \/ load
    \/ close

SpecDirectory == InitDirectory /\ [][NextDirectory]_vars

\* the step is a call of the method
Calls(method) ==
    /\ Len(call_log') = Len(call_log) + 1
    /\ call_log'[Len(call_log')][1] = method

Called(method) == \E k \in DOMAIN call_log : call_log[k][1] = method

LastCalled(method) == call_log # << >> /\ call_log[Len(call_log)][1] = method

ObjectAndDisk == << path, tempDir, disk, removed >>

\* the user's directory is on disk; only the temp directory was ever removed,
\* and once at most
C30_State ==
    /\ uri = "directory" => "uri" \in disk
    /\ \A k \in DOMAIN removed : removed[k] = "tmp"
    /\ Len(removed) <= 1

\* a load() after a load(), and a close() right after a close() or after the
\* close() that removed the temp directory, change nothing
C30_Step ==
    /\ (Calls("load") /\ Called("load")) => UNCHANGED ObjectAndDisk
    /\ (Calls("close") /\ (LastCalled("close") \/ removed # << >>)) =>
          UNCHANGED ObjectAndDisk

(* C30: no sequence of load() and close() removes the directory the user     *)
(* gave as uri; close() removes only the temp directory of a tarball         *)
(* extraction, at most once; a repeated close() or load() changes nothing.   *)
C30_UserDirectoryKept == []C30_State /\ [][C30_Step]_vars

\* the user's directory was loaded, closed twice and loaded again, and is on disk
C30_Witness ==
    /\ uri = "directory"
    /\ Len(call_log) = 4
    /\ call_log[1][1] = "load"
    /\ call_log[2][1] = "close"
    /\ call_log[3][1] = "close"
    /\ call_log[4][1] = "load"
    /\ path = << "uri", 1 >>
    /\ "uri" \in disk

====
